---- MODULE Spec2Model ----
(***************************************************************************)
(* Model of the Conan recipe of libcosim (conanfile.py, class              *)
(* LibcosimConan): the option handling of config_options() and             *)
(* configure(), the requirement list of requirements(), the linkage check  *)
(* of validate(), the definitions written by generate(), and the external  *)
(* tool steps of build() and package().                                    *)
(*                                                                         *)
(* The recipe's methods are called by Conan in its documented order for    *)
(* creating a package:                                                     *)
(*   config_options, configure, requirements, <dependency graph is         *)
(*   resolved>, validate, generate, build, package, package_info.          *)
(* A Python exception raised by a method ends the run.                     *)
(*                                                                         *)
(* Strings that the recipe transforms (the environment variable, which is  *)
(* lower-cased) are sequences of one-character strings.                    *)
(***************************************************************************)
EXTENDS FiniteSets, Integers, Sequences, TLC

VARIABLES
    pc,               \* the recipe method (or statement of build()) Conan runs next
    os,               \* self.settings.os
    options,          \* self.options: option name -> value; a removed option is not in the domain
    depOptions,       \* self.options[pattern]: ordered table of <pattern, shared value>
    requires,         \* the requirements declared by requirements(), in call order
    dependencies,     \* shared option of each dependency package (self.dependencies[d].options.shared)
    profile,          \* option values for dependencies given by the user's profile / command line
    env,              \* the process environment variable LIBCOSIM_RUN_TESTS_ON_CONAN_BUILD
    cache_variables,  \* tc.cache_variables written by generate()
    log,              \* the external tool steps run so far, each with its outcome
    invalid,          \* validate() raised ConanInvalidConfiguration
    cpp_info          \* self.cpp_info written by package_info()

vars == <<pc, os, options, depOptions, requires, dependencies, profile, env,
          cache_variables, log, invalid, cpp_info>>

(***************************************************************************)
(* Bounds of the model                                                     *)
(***************************************************************************)
\* largest number of dependency options the user's profile overrides
MaxOverrides == 1

(***************************************************************************)
(* Strings                                                                 *)
(***************************************************************************)
UpperCase == <<"A","B","C","D","E","F","G","H","I","J","K","L","M",
               "N","O","P","Q","R","S","T","U","V","W","X","Y","Z">>
LowerCase == <<"a","b","c","d","e","f","g","h","i","j","k","l","m",
               "n","o","p","q","r","s","t","u","v","w","x","y","z">>

\* str.lower() on one character
LowerChar(c) ==
    IF \E i \in 1..Len(UpperCase) : UpperCase[i] = c
    THEN LowerCase[CHOOSE i \in 1..Len(UpperCase) : UpperCase[i] = c]
    ELSE c

\* str.lower()
lower(s) == [i \in 1..Len(s) |-> LowerChar(s[i])]

\* os.getenv(name, default) on the one variable the recipe reads
getenv(e, default) == IF e.set THEN e.value ELSE default

\* values of LIBCOSIM_RUN_TESTS_ON_CONAN_BUILD the environment may hold
EnvValues ==
    { [set |-> FALSE, value |-> <<>>] } \cup
    { [set |-> TRUE, value |-> v] :
        v \in { <<"1">>, <<"t","r","u","e">>, <<"T","r","u","e">>,
                <<"0">>, <<"y","e","s">> } }

(***************************************************************************)
(* Option schema                                                           *)
(***************************************************************************)
OptionNames == {"shared", "fPIC", "proxyfmu", "no_fmi_logging"}

default_options ==
    [o \in OptionNames |->
        CASE o = "shared" -> TRUE
          [] o = "fPIC" -> TRUE
          [] o = "proxyfmu" -> FALSE
          [] o = "no_fmi_logging" -> FALSE]

OsNames == {"Windows", "Linux"}

\* del self.options.<k>: raises when the option is not there
del_option(self, k) ==
    IF k \in DOMAIN self.options
    THEN [self EXCEPT !.options = [o \in DOMAIN self.options \ {k} |-> self.options[o]]]
    ELSE [self EXCEPT !.raised = TRUE]

\* variant of rm_safe: the option is removed with del, which raises when
\* the option is already gone
rm_safe_as_del(self, k) ==
    IF k \in DOMAIN self.options
    THEN [self EXCEPT !.options = [o \in DOMAIN self.options \ {k} |-> self.options[o]]]
    ELSE [self EXCEPT !.raised = TRUE]

\* self.options.rm_safe(k): removes the option if it is there
rm_safe(self, k) ==
    [self EXCEPT !.options = [o \in DOMAIN self.options \ {k} |-> self.options[o]]]

\* self.options[pattern].shared = v: the table keeps one entry per pattern,
\* in the order in which the patterns were first assigned
set_dep_shared(self, pattern, v) ==
    IF \E i \in 1..Len(self.depOptions) : self.depOptions[i].pattern = pattern
    THEN [self EXCEPT !.depOptions =
            [i \in 1..Len(self.depOptions) |->
                IF self.depOptions[i].pattern = pattern
                THEN [pattern |-> pattern, shared |-> v]
                ELSE self.depOptions[i]]]
    ELSE [self EXCEPT !.depOptions =
            Append(self.depOptions, [pattern |-> pattern, shared |-> v])]

\* config_options(): fPIC does not exist on Windows
do_config_options(self, theOs) ==
    IF theOs = "Windows" THEN del_option(self, "fPIC") ELSE self

\* variant of configure(): the wildcard rule is missing
do_configure_no_wildcard(self) ==
    LET s1 == IF self.options["shared"] THEN rm_safe(self, "fPIC") ELSE self
    IN  set_dep_shared(s1, "libcbor/*", FALSE)

\* variant of configure(): the libcbor rule is declared before the wildcard rule
do_configure_swapped(self) ==
    LET s1 == IF self.options["shared"] THEN rm_safe(self, "fPIC") ELSE self
        s2 == set_dep_shared(s1, "libcbor/*", FALSE)
    IN  set_dep_shared(s2, "*", s2.options["shared"])

\* configure(): its statements in order; a statement is not reached once
\* an earlier one has raised
do_configure(self) ==
    LET s1 == IF self.options["shared"] THEN rm_safe(self, "fPIC") ELSE self
        s2 == IF s1.raised THEN s1 ELSE set_dep_shared(s1, "*", s1.options["shared"])
        s3 == IF s2.raised THEN s2 ELSE set_dep_shared(s2, "libcbor/*", FALSE)
    IN  s3

\* the recipe object as far as config_options() and configure() touch it
Self == [options |-> options, depOptions |-> depOptions, raised |-> FALSE]

(***************************************************************************)
(* Requirements                                                            *)
(***************************************************************************)
Req(ref, version, tool, th, tl) ==
    [ref |-> ref, version |-> version, tool |-> tool,
     transitive_headers |-> th, transitive_libs |-> tl]

\* variant of requirements(): the open boost range is required
\* unconditionally and the proxyfmu branch adds its own
do_requirements_two_boost(opts) ==
    <<Req("cmake", "[>=3.19]", TRUE, FALSE, FALSE),
      Req("fmilibrary", "[~2.3]", FALSE, FALSE, FALSE),
      Req("libcbor", "[~0.11.0]", FALSE, FALSE, FALSE),
      Req("libzip", "[>=1.7 <1.10]", FALSE, FALSE, FALSE),
      Req("ms-gsl", "[>=3 <5]", FALSE, TRUE, FALSE)>>
    \o (IF opts["proxyfmu"]
        THEN <<Req("proxyfmu", "0.3.2@osp/stable", FALSE, FALSE, FALSE),
               Req("boost", "[~1.81]", FALSE, TRUE, TRUE)>>
        ELSE <<>>)
    \o <<Req("boost", "[>=1.71]", FALSE, TRUE, TRUE),
         Req("yaml-cpp", "[~0.8]", FALSE, FALSE, FALSE),
         Req("xerces-c", "[~3.2]", FALSE, FALSE, FALSE)>>

\* requirements(): the calls of tool_requires() and requires() in order
do_requirements(opts) ==
    <<Req("cmake", "[>=3.19]", TRUE, FALSE, FALSE),
      Req("fmilibrary", "[~2.3]", FALSE, FALSE, FALSE),
      Req("libcbor", "[~0.11.0]", FALSE, FALSE, FALSE),
      Req("libzip", "[>=1.7 <1.10]", FALSE, FALSE, FALSE),
      Req("ms-gsl", "[>=3 <5]", FALSE, TRUE, FALSE)>>
    \o (IF opts["proxyfmu"]
        THEN <<Req("proxyfmu", "0.3.2@osp/stable", FALSE, FALSE, FALSE),
               Req("boost", "[~1.81]", FALSE, TRUE, TRUE)>>
        ELSE <<Req("boost", "[>=1.71]", FALSE, TRUE, TRUE)>>)
    \o <<Req("yaml-cpp", "[~0.8]", FALSE, FALSE, FALSE),
         Req("xerces-c", "[~3.2]", FALSE, FALSE, FALSE)>>

\* the packages the recipe may require that have a shared option
\* (cmake is a build tool and ms-gsl is header-only)
SharedDeps == {"fmilibrary", "libcbor", "libzip", "proxyfmu", "boost",
               "yaml-cpp", "xerces-c"}

Refs(reqs) == { reqs[i].ref : i \in 1..Len(reqs) }

(***************************************************************************)
(* Options of the dependencies                                             *)
(***************************************************************************)
\* a pattern of self.options[pattern] against a package name
Matches(pattern, ref) == pattern = "*" \/ pattern = ref \o "/*"

\* the value the table gives to package ref: the entries are applied in
\* order, so the last matching entry decides
HasEntry(table, ref) == \E i \in 1..Len(table) : Matches(table[i].pattern, ref)
LastEntry(table, ref) ==
    table[CHOOSE i \in 1..Len(table) :
            /\ Matches(table[i].pattern, ref)
            /\ \A j \in (i+1)..Len(table) : ~Matches(table[j].pattern, ref)].shared

\* the shared option of each required package: the package's own default,
\* overridden by the recipe's table, overridden by the user's profile
resolve(defaults, table, prof, reqs) ==
    [d \in SharedDeps \cap Refs(reqs) |->
        IF d \in DOMAIN prof THEN prof[d]
        ELSE IF HasEntry(table, d) THEN LastEntry(table, d)
        ELSE defaults[d]]

\* the profiles the user may give
Profiles ==
    UNION { [D -> BOOLEAN] : D \in { X \in SUBSET SharedDeps : Cardinality(X) <= MaxOverrides } }

(***************************************************************************)
(* validate() and _is_tests_enabled()                                      *)
(***************************************************************************)
\* variant of validate(): the check looks at libcbor instead of boost
validate_raises_libcbor(opts, deps) == opts["shared"] /\ ~deps["libcbor"]

\* variant of validate(): the negation is missing
validate_raises_no_not(opts, deps) == opts["shared"] /\ deps["boost"]

\* validate(): TRUE when it raises ConanInvalidConfiguration
validate_raises(opts, deps) == opts["shared"] /\ ~deps["boost"]

\* variant of _is_tests_enabled(): the default of getenv is "True"
_is_tests_enabled_default_true(e) ==
    lower(getenv(e, <<"T","r","u","e">>)) \in { <<"t","r","u","e">>, <<"1">> }

\* _is_tests_enabled()
_is_tests_enabled(e) ==
    lower(getenv(e, <<"F","a","l","s","e">>)) \in { <<"t","r","u","e">>, <<"1">> }

(***************************************************************************)
(* The run                                                                 *)
(***************************************************************************)
Init ==
    /\ pc = "config_options"
    /\ os \in OsNames
    /\ options \in [OptionNames -> BOOLEAN]
    /\ depOptions = <<>>
    /\ requires = <<>>
    /\ dependencies \in [SharedDeps -> BOOLEAN]
    /\ profile = <<>>
    /\ env \in EnvValues
    /\ cache_variables = <<>>
    /\ log = <<>>
    /\ invalid = FALSE
    /\ cpp_info = <<>>

config_options ==
    /\ pc = "config_options"
    /\ LET s == do_config_options(Self, os)
       IN  /\ options' = s.options
           /\ depOptions' = s.depOptions
           /\ pc' = IF s.raised THEN "Failed" ELSE "configure"
    /\ UNCHANGED <<os, requires, dependencies, profile, env, cache_variables,
                   log, invalid, cpp_info>>

configure ==
    /\ pc = "configure"
    /\ LET s == do_configure(Self)
       IN  /\ options' = s.options
           /\ depOptions' = s.depOptions
           /\ pc' = IF s.raised THEN "Failed" ELSE "requirements"
    /\ UNCHANGED <<os, requires, dependencies, profile, env, cache_variables,
                   log, invalid, cpp_info>>

requirements ==
    /\ pc = "requirements"
    /\ requires' = do_requirements(options)
    /\ pc' = "resolve"
    /\ UNCHANGED <<os, options, depOptions, dependencies, profile, env,
                   cache_variables, log, invalid, cpp_info>>

\* Conan builds the dependency graph that validate() and generate() read as
\* self.dependencies: the options the recipe set for its dependencies in
\* configure() are applied to the required packages, and option values from
\* the user's profile take precedence over them
ResolveGraph ==
    /\ pc = "resolve"
    /\ \E prof \in Profiles :
          /\ profile' = prof
          /\ dependencies' = resolve(dependencies, depOptions, prof, requires)
    /\ pc' = "validate"
    /\ UNCHANGED <<os, options, depOptions, requires, env, cache_variables,
                   log, invalid, cpp_info>>

\* variant of validate(): the finding is reported and the run goes on
validate_warns ==
    /\ pc = "validate"
    /\ invalid' = validate_raises(options, dependencies)
    /\ pc' = "generate"
    /\ UNCHANGED <<os, options, depOptions, requires, dependencies, profile,
                   env, cache_variables, log, cpp_info>>

validate ==
    /\ pc = "validate"
    /\ IF validate_raises(options, dependencies)
       THEN invalid' = TRUE /\ pc' = "Invalid"
       ELSE invalid' = FALSE /\ pc' = "generate"
    /\ UNCHANGED <<os, options, depOptions, requires, dependencies, profile,
                   env, cache_variables, log, cpp_info>>

generate ==
    /\ pc = "generate"
    /\ cache_variables' =
          [LIBCOSIM_BUILD_APIDOC |-> FALSE,
           LIBCOSIM_BUILD_TESTS |-> _is_tests_enabled(env),
           LIBCOSIM_NO_FMI_LOGGING |-> options["no_fmi_logging"],
           LIBCOSIM_WITH_PROXYFMU |-> options["proxyfmu"]]
    /\ pc' = "build_configure"
    /\ UNCHANGED <<os, options, depOptions, requires, dependencies, profile,
                   env, log, invalid, cpp_info>>

\* variant of a tool step: a failure is recorded and the run goes on
ToolStepNoRaise(step, next) ==
    \E ok \in BOOLEAN :
        /\ log' = Append(log, [step |-> step, ok |-> ok])
        /\ pc' = next

\* one external tool step: it succeeds or fails, and a failure raises
ToolStep(step, next) ==
    \E ok \in BOOLEAN :
        /\ log' = Append(log, [step |-> step, ok |-> ok])
        /\ pc' = IF ok THEN next ELSE "Failed"

\* build(): cmake.configure()
build_configure ==
    /\ pc = "build_configure"
    /\ ToolStep("configure", "build_build")
    /\ UNCHANGED <<os, options, depOptions, requires, dependencies, profile,
                   env, cache_variables, invalid, cpp_info>>

\* build(): cmake.build()
build_build ==
    /\ pc = "build_build"
    /\ ToolStep("build", "build_test")
    /\ UNCHANGED <<os, options, depOptions, requires, dependencies, profile,
                   env, cache_variables, invalid, cpp_info>>

\* build(): if self._is_tests_enabled(): cmake.test()
build_test ==
    /\ pc = "build_test"
    /\ IF _is_tests_enabled(env)
       THEN ToolStep("test", "package")
       ELSE log' = log /\ pc' = "package"
    /\ UNCHANGED <<os, options, depOptions, requires, dependencies, profile,
                   env, cache_variables, invalid, cpp_info>>

\* package(): cmake.install()
package ==
    /\ pc = "package"
    /\ ToolStep("install", "package_info")
    /\ UNCHANGED <<os, options, depOptions, requires, dependencies, profile,
                   env, cache_variables, invalid, cpp_info>>

package_info ==
    /\ pc = "package_info"
    /\ cpp_info' = [libs |-> <<"cosim">>,
                    cmake_target_name |-> "libcosim::cosim",
                    builddirs |-> <<".">>,
                    cmake_find_mode |-> "none"]
    /\ pc' = "Done"
    /\ UNCHANGED <<os, options, depOptions, requires, dependencies, profile,
                   env, cache_variables, log, invalid>>

\* the environment variable is given another value while build() has not
\* yet read it
EnvChange ==
    /\ pc \in {"build_configure", "build_build", "build_test"}
    /\ \E e \in EnvValues : e # env /\ env' = e
    /\ UNCHANGED <<pc, os, options, depOptions, requires, dependencies, profile,
                   cache_variables, log, invalid, cpp_info>>

Next ==
    \/ config_options
    \/ configure
    \/ requirements
    \/ ResolveGraph
    \/ validate
    \/ generate
    \/ build_configure
    \/ build_build
    \/ build_test
    \/ package
    \/ package_info
    \/ EnvChange

Spec == Init /\ [][Next]_vars


(***************************************************************************)
(* Properties                                                              *)
(***************************************************************************)
\* configure() has returned
Configured == pc \notin {"config_options", "configure"}

\* requirements() has returned
Required == pc \notin {"config_options", "configure", "requirements"}

\* validate() has returned or raised
Validated == pc \notin {"config_options", "configure", "requirements",
                        "resolve", "validate"}

\* the if statement of build() has been passed
GatePassed ==
    \/ pc \in {"package", "package_info", "Done"}
    \/ pc = "Failed" /\ log # <<>> /\ log[Len(log)].step \in {"test", "install"}

\* the shared value that the recipe's table gives to package d is v
Requested(d, v) == HasEntry(depOptions, d) /\ LastEntry(depOptions, d) = v

\* the required packages that have a shared option
LinkedDeps == SharedDeps \cap Refs(requires)

Steps == [i \in 1..Len(log) |-> log[i].step]
HasTest == \E i \in 1..Len(log) : log[i].step = "test"

\* the values of the environment variable that enable the tests: "1" and
\* every spelling of "true"
TruthyEnv ==
    { [set |-> TRUE, value |-> <<"1">>] } \cup
    { [set |-> TRUE, value |-> <<a, b, c, d>>] :
        a \in {"t","T"}, b \in {"r","R"}, c \in {"u","U"}, d \in {"e","E"} }

\* C1 as stated: when the top-level option shared is True, after
\* configure() every required package that has a shared option is given
\* shared = True, with no exception.
C1_AllDepsShared ==
    (Required /\ options["shared"]) =>
        \A d \in LinkedDeps : Requested(d, TRUE)

\* C1 as amended: when the top-level option shared is True, after
\* configure() every required package that has a shared option, other than
\* libcbor, is given shared = True, and libcbor is given shared = False.
C1_AllDepsButLibcborShared ==
    (Required /\ options["shared"]) =>
        /\ \A d \in LinkedDeps \ {"libcbor"} : Requested(d, TRUE)
        /\ Requested("libcbor", FALSE)

\* a shared build with proxyfmu in which some package other than libcbor
\* is static by its own default, after configure() and requirements()
C1_Witness ==
    /\ pc = "resolve"
    /\ options["shared"]
    /\ "proxyfmu" \in LinkedDeps
    /\ \E d \in LinkedDeps \ {"libcbor"} : ~dependencies[d]

C3_PhaseOrder ==
    /\ \E n \in 0..4 :
          \/ Steps = SubSeq(<<"configure", "build", "test", "install">>, 1, n)
          \/ Steps = SubSeq(<<"configure", "build", "install">>, 1, n)
    /\ \A i \in 1..(Len(log) - 1) : log[i].ok
    /\ (log # <<>> /\ ~log[Len(log)].ok) => pc = "Failed"
    /\ pc = "Failed" => (log # <<>> /\ ~log[Len(log)].ok)

\* the test step failed after configure and build succeeded: install was
\* not started
C3_Witness ==
    /\ pc = "Failed"
    /\ Len(log) = 3
    /\ log[3].step = "test"

\* C4: when validate() raises ConanInvalidConfiguration no external tool
\* step is run: the run ends in Invalid with nothing configured or built.
C4_InvalidNeverBuilds ==
    invalid => (pc = "Invalid" /\ log = <<>> /\ cache_variables = <<>>)

\* validate() has rejected a shared build whose boost is static
C4_Witness == invalid /\ options["shared"] /\ ~dependencies["boost"]

\* C5 as stated: validate() rejects exactly the configurations in which
\* shared is True and some required package is static.
C5_RejectsAnyStaticDep ==
    Validated =>
        (invalid <=> (options["shared"] /\ \E d \in LinkedDeps : ~dependencies[d]))

\* C5 as amended: validate() rejects exactly the configurations in which
\* shared is True and boost is static; a static package other than boost
\* is accepted.
C5_RejectsStaticBoostOnly ==
    Validated =>
        (invalid <=> (options["shared"] /\ ~dependencies["boost"]))

\* validate() has rejected a build in which boost is the only static package
\* besides libcbor
C5_Witness ==
    /\ pc = "Invalid"
    /\ profile = [d \in {"boost"} |-> FALSE]
    /\ \A d \in LinkedDeps \ {"boost", "libcbor"} : dependencies[d]

\* C6: requirements() declares cmake (as a tool), fmilibrary, libcbor,
\* libzip, ms-gsl, yaml-cpp and xerces-c always and in this order, proxyfmu
\* exactly when the option proxyfmu is True, and exactly one boost, with
\* range ~1.81 when proxyfmu is True and >=1.71 otherwise.
C6_Requirements ==
    Required =>
        LET refs == [i \in 1..Len(requires) |-> requires[i].ref]
            IsBase(r) == r \in {"cmake", "fmilibrary", "libcbor", "libzip",
                                "ms-gsl", "yaml-cpp", "xerces-c"}
            boosts == { i \in 1..Len(requires) : requires[i].ref = "boost" }
        IN  /\ SelectSeq(refs, IsBase) =
                  <<"cmake", "fmilibrary", "libcbor", "libzip", "ms-gsl",
                    "yaml-cpp", "xerces-c">>
            /\ \A i \in 1..Len(requires) :
                  /\ IsBase(refs[i]) \/ refs[i] \in {"proxyfmu", "boost"}
                  /\ requires[i].tool <=> refs[i] = "cmake"
            /\ ("proxyfmu" \in Refs(requires)) <=> options["proxyfmu"]
            /\ Cardinality({ i \in 1..Len(requires) : refs[i] = "proxyfmu" }) <= 1
            /\ Cardinality(boosts) = 1
            /\ \A i \in boosts :
                  requires[i].version =
                      IF options["proxyfmu"] THEN "[~1.81]" ELSE "[>=1.71]"

\* requirements() has run with proxyfmu enabled
C6_Witness ==
    /\ pc = "resolve"
    /\ options["proxyfmu"]
    /\ Len(requires) = 9

\* C7: running configure() again on the state a first configure() left
\* changes neither the top-level options nor the table of dependency
\* options, and raises nothing.
C7_ConfigureIdempotent ==
    Configured => do_configure(Self) = Self

\* the first configure() has removed fPIC (not Windows, shared build)
C7_Witness ==
    /\ pc = "requirements"
    /\ os = "Linux"
    /\ options["shared"]
    /\ "fPIC" \notin DOMAIN options
    /\ Len(depOptions) = 2

\* C8: whatever the options and the packages' own defaults, validate()
\* accepts the configuration that configure() produces: with no override
\* from the profile boost gets shared = True in a shared build and
\* validate() does not raise.
C8_ConfiguredIsValid ==
    /\ pc = "resolve" =>
          LET deps == resolve(dependencies, depOptions, <<>>, requires)
          IN  /\ ~validate_raises(options, deps)
              /\ options["shared"] => deps["boost"]
    /\ (Validated /\ profile = <<>>) => ~invalid

\* a shared build in which boost is static by its own default, after
\* configure()
C8_Witness ==
    /\ pc = "resolve"
    /\ options["shared"]
    /\ ~dependencies["boost"]
    /\ Requested("boost", TRUE)

\* C9: after configure() the table gives libcbor shared = False for both
\* values of the top-level option shared (the later libcbor rule wins over
\* the wildcard rule) and gives every other package the top-level value.
C9_LastRuleWins ==
    Configured =>
        /\ Requested("libcbor", FALSE)
        /\ \A d \in SharedDeps \ {"libcbor"} : Requested(d, options["shared"])

\* a shared build after configure(): both rules match libcbor and they
\* disagree
C9_Witness ==
    /\ pc = "requirements"
    /\ options["shared"]
    /\ \E i, j \in 1..Len(depOptions) :
          /\ i < j
          /\ Matches(depOptions[i].pattern, "libcbor")
          /\ Matches(depOptions[j].pattern, "libcbor")
          /\ depOptions[i].shared # depOptions[j].shared

\* C10 as stated: once build() has passed its test gate, the Test step
\* has been run exactly when generate() set LIBCOSIM_BUILD_TESTS to true.
C10_TestsMatchGenerate ==
    GatePassed => (HasTest <=> cache_variables["LIBCOSIM_BUILD_TESTS"])

====
